---- MODULE Spec2Model ----
(***************************************************************************)
(* The closed-loop irrigation decision core of agritech-engine:            *)
(*   api/app.py            the /decide and /feedback handlers              *)
(*   core/decision_engine  decide_action (rules + RL + policy gate)        *)
(*   core/policy_engine    is_action_allowed, _log_penalty                 *)
(*   core/rl_engine        get_state, fetch_q_values, choose_action,       *)
(*                         update_q_table                                  *)
(*   core/regret_engine    calculate_regret                                *)
(*   core/crop_constants   validate_crop, safe_value                       *)
(*                                                                         *)
(* Real numbers (regret, reward, q-values) are fixed-point integers in     *)
(* units of 1/Scale.  The remote tables rl_q_table and policy_penalties    *)
(* are the variables qtable and penalties; every remote call may raise.    *)
(***************************************************************************)
EXTENDS Integers, Sequences, FiniteSets, TLC

VARIABLES
    qtable,      \* rows of table rl_q_table
    penalties,   \* rows of table policy_penalties, in insertion order
    ml_model,    \* the classifier loaded at start-up, or "None"
    req,         \* the request the last handler served
    resp,        \* the response it gave
    calls,       \* the core/store calls it made, in order
    rl_chosen,   \* the action choose_action gave it, -1 when it gave none
    core_data,   \* the reading the handler gave the core, if it called it
    nreq,        \* number of requests served
    rg,          \* inputs and results of calculate_regret (SpecRegret)
    uq,          \* arguments and results of update_q_table (SpecUpdate)
    ch,          \* arguments and results of choose_action (SpecChoose)
    pg,          \* arguments and results of is_action_allowed (SpecGate)
    race,        \* two concurrent update_q_table calls (SpecRace)
    gs           \* arguments and results of get_state (SpecState)

vars ==
    <<qtable, penalties, ml_model, req, resp, calls, rl_chosen, core_data,
      nreq, rg, uq, ch, pg, race, gs>>

----------------------------------------------------------------------------
(* Bounds and fixed-point unit *)

MaxRequests == 1

Scale == 10 ^ 7

Real(units, hundredths) == units * Scale + hundredths * (Scale \div 100)

----------------------------------------------------------------------------
(* JSON values as the handlers receive them *)

Num(n) == [t |-> "num", v |-> n]
JNull == [t |-> "null", v |-> 0]
JText == [t |-> "text", v |-> 0]

IsNum(x) == x.t = "num"

\* crop_constants.safe_value: None -> 0, float(value) when it converts, else 0
safe_value(value) ==
    IF value.t = "null" THEN Num(0)
    ELSE IF value.t = "num" THEN Num(value.v)
    ELSE Num(0)

ALLOWED_CROPS == {"rice", "wheat", "maize", "sugarcane", "pulses"}

NoCrop == "<none>"

\* str.lower on the crop names the model draws
Lower(s) ==
    CASE s = "Pulses" -> "pulses"
      [] s = "WHEAT" -> "wheat"
      [] OTHER -> s

\* crop_constants.validate_crop: ValueError on an empty or unlisted crop,
\* else the lowercase name
validate_crop(crop) ==
    IF crop = NoCrop \/ crop = "" THEN [kind |-> "ValueError", crop |-> crop]
    ELSE IF Lower(crop) \notin ALLOWED_CROPS
         THEN [kind |-> "ValueError", crop |-> crop]
         ELSE [kind |-> "ok", crop |-> Lower(crop)]

\* app.decide lines 130-131: score -> {low, medium, high}
RiskLevel(score) ==
    IF score.v > 70 THEN "high" ELSE IF score.v > 30 THEN "medium" ELSE "low"

----------------------------------------------------------------------------
(* rl_engine: state encoder and Q-value store *)

\* discretize_soil_moisture with the lower boundary taken as "<= 40"
discretize_soil_moisture_Inclusive(value) ==
    IF value <= 40 THEN "low" ELSE IF value < 65 THEN "medium" ELSE "high"

discretize_soil_moisture(value) ==
    IF value < 40 THEN "low" ELSE IF value < 65 THEN "medium" ELSE "high"

discretize_rainfall(value) ==
    IF value < 30 THEN "low" ELSE IF value < 80 THEN "medium" ELSE "high"

get_state(data) ==
    [soil_moisture_level |-> discretize_soil_moisture(data.soil_moisture_pct.v),
     rainfall_level      |-> discretize_rainfall(data.rainfall_mm.v),
     crop                |-> data.crop,
     growth_stage        |-> data.growth_stage,
     disease_risk        |-> data.disease_risk]

ACTION_SPACE == {0, 1}

\* the state columns of a row without growth_stage (a partial key)
RowState_NoStage(row) ==
    [soil_moisture_level |-> row.soil_moisture_level,
     rainfall_level      |-> row.rainfall_level,
     crop                |-> row.crop,
     growth_stage        |-> "",
     disease_risk        |-> row.disease_risk]

RowState(row) ==
    [soil_moisture_level |-> row.soil_moisture_level,
     rainfall_level      |-> row.rainfall_level,
     crop                |-> row.crop,
     growth_stage        |-> row.growth_stage,
     disease_risk        |-> row.disease_risk]

\* the rows the five .eq() filters select
SelectRows(table, state) == {row \in table : RowState(row) = state}

\* fetch_q_values: {0: 0.0, 1: 0.0} overwritten by the selected rows; the
\* remote read may raise, and nothing in fetch_q_values catches it
fetch_q_values(table, state, readOk) ==
    IF ~readOk THEN [kind |-> "raise", q |-> [a \in ACTION_SPACE |-> 0]]
    ELSE [kind |-> "ok",
          q |-> [a \in ACTION_SPACE |->
                   IF \E row \in SelectRows(table, state) : row.action = a
                   THEN (CHOOSE row \in SelectRows(table, state) :
                             row.action = a).q_value
                   ELSE 0]]

\* EPSILON = 0.1, in hundredths
EPSILON == 10

\* random.random() < epsilon, the draw in hundredths of [0, 1)
Explores(epsilon, random) == random < epsilon

\* max over the keys that keeps the last key with the largest value
ArgMax_LastMax(q) == IF q[1] >= q[0] THEN 1 ELSE 0

\* max(q_values, key=q_values.get): the first key (0, then 1) with the
\* largest value
ArgMax(q) == IF q[1] > q[0] THEN 1 ELSE 0

\* choose_action: explore (random.random() < EPSILON) picks random.choice,
\* exploit reads the store
choose_action(table, state, explore, rand, readOk) ==
    IF explore
    THEN [kind |-> "ok", action |-> rand, calls |-> <<"choose_action">>]
    ELSE LET f == fetch_q_values(table, state, readOk)
         IN  IF f.kind = "raise"
             THEN [kind |-> "raise", action |-> 0,
                   calls |-> <<"choose_action", "fetch_q_values!">>]
             ELSE [kind |-> "ok", action |-> ArgMax(f.q),
                   calls |-> <<"choose_action", "fetch_q_values">>]

----------------------------------------------------------------------------
(* policy_engine: the policy gate *)

NoRule == [rule |-> "ALLOW", penalty |-> 0]

\* the rule table with the wheat limit at 60 where the code has 65
PolicyRule_WheatSixty(data) ==
    LET crop == data.crop
        soil_moisture == data.soil_moisture_pct.v
        rainfall == data.rainfall_mm.v
    IN  IF rainfall >= 80
        THEN [rule |-> "RAIN_BLOCK_RULE", penalty |-> Real(2, 0)]
        ELSE IF soil_moisture >= 70
        THEN [rule |-> "HIGH_SOIL_MOISTURE", penalty |-> Real(1, 50)]
        ELSE IF crop = "pulses" /\ soil_moisture > 60
        THEN [rule |-> "PULSES_WATERLOGGING_RULE", penalty |-> Real(2, 50)]
        ELSE IF data.disease_risk = "high"
        THEN [rule |-> "DISEASE_IRRIGATION_BLOCK", penalty |-> Real(3, 0)]
        ELSE IF crop = "wheat" /\ soil_moisture > 60
        THEN [rule |-> "WHEAT_OVER_IRRIGATION", penalty |-> Real(1, 20)]
        ELSE IF crop = "maize" /\ soil_moisture > 65
        THEN [rule |-> "MAIZE_OVER_IRRIGATION", penalty |-> Real(1, 20)]
        ELSE IF crop = "sugarcane" /\ soil_moisture > 80
        THEN [rule |-> "SUGARCANE_EXCESS_MOISTURE", penalty |-> Real(1, 0)]
        ELSE [rule |-> "ALLOW", penalty |-> 0]

\* the rule table with the disease rule tested before the rainfall rule
PolicyRule_DiseaseFirst(data) ==
    LET crop == data.crop
        soil_moisture == data.soil_moisture_pct.v
        rainfall == data.rainfall_mm.v
    IN  IF data.disease_risk = "high"
        THEN [rule |-> "DISEASE_IRRIGATION_BLOCK", penalty |-> Real(3, 0)]
        ELSE IF rainfall >= 80
        THEN [rule |-> "RAIN_BLOCK_RULE", penalty |-> Real(2, 0)]
        ELSE IF soil_moisture >= 70
        THEN [rule |-> "HIGH_SOIL_MOISTURE", penalty |-> Real(1, 50)]
        ELSE IF crop = "pulses" /\ soil_moisture > 60
        THEN [rule |-> "PULSES_WATERLOGGING_RULE", penalty |-> Real(2, 50)]
        ELSE IF crop = "wheat" /\ soil_moisture > 65
        THEN [rule |-> "WHEAT_OVER_IRRIGATION", penalty |-> Real(1, 20)]
        ELSE IF crop = "maize" /\ soil_moisture > 65
        THEN [rule |-> "MAIZE_OVER_IRRIGATION", penalty |-> Real(1, 20)]
        ELSE IF crop = "sugarcane" /\ soil_moisture > 80
        THEN [rule |-> "SUGARCANE_EXCESS_MOISTURE", penalty |-> Real(1, 0)]
        ELSE [rule |-> "ALLOW", penalty |-> 0]

\* is_action_allowed lines 33-102: the rule table for action 1, first match
PolicyRule(data) ==
    LET crop == data.crop
        soil_moisture == data.soil_moisture_pct.v
        rainfall == data.rainfall_mm.v
    IN  IF rainfall >= 80
        THEN [rule |-> "RAIN_BLOCK_RULE", penalty |-> Real(2, 0)]
        ELSE IF soil_moisture >= 70
        THEN [rule |-> "HIGH_SOIL_MOISTURE", penalty |-> Real(1, 50)]
        ELSE IF crop = "pulses" /\ soil_moisture > 60
        THEN [rule |-> "PULSES_WATERLOGGING_RULE", penalty |-> Real(2, 50)]
        ELSE IF data.disease_risk = "high"
        THEN [rule |-> "DISEASE_IRRIGATION_BLOCK", penalty |-> Real(3, 0)]
        ELSE IF crop = "wheat" /\ soil_moisture > 65
        THEN [rule |-> "WHEAT_OVER_IRRIGATION", penalty |-> Real(1, 20)]
        ELSE IF crop = "maize" /\ soil_moisture > 65
        THEN [rule |-> "MAIZE_OVER_IRRIGATION", penalty |-> Real(1, 20)]
        ELSE IF crop = "sugarcane" /\ soil_moisture > 80
        THEN [rule |-> "SUGARCANE_EXCESS_MOISTURE", penalty |-> Real(1, 0)]
        ELSE NoRule

\* the row _log_penalty inserts into policy_penalties
PenaltyRow(data, action, r) ==
    [crop              |-> data.crop,
     growth_stage      |-> data.growth_stage,
     soil_moisture_pct |-> data.soil_moisture_pct.v,
     rainfall_mm       |-> data.rainfall_mm.v,
     disease_risk      |-> data.disease_risk,
     pest_risk         |-> data.pest_risk,
     action            |-> action,
     allowed           |-> FALSE,
     penalty_score     |-> r.penalty,
     policy_rule       |-> r.rule]

\* is_action_allowed without the early return for action 0 (lines 23-24)
is_action_allowed_NoZeroReturn(action, data, logOk) ==
    LET r == PolicyRule(data)
    IN  IF r = NoRule
        THEN [kind |-> "ok", allowed |-> TRUE, log |-> <<>>,
              calls |-> <<"is_action_allowed">>]
        ELSE IF ~logOk
        THEN [kind |-> "raise", allowed |-> FALSE, log |-> <<>>,
              calls |-> <<"is_action_allowed", "_log_penalty!">>]
        ELSE [kind |-> "ok", allowed |-> FALSE,
              log |-> <<PenaltyRow(data, action, r)>>,
              calls |-> <<"is_action_allowed", "_log_penalty">>]

\* is_action_allowed: action 0 is allowed at once; for action 1 a matching
\* rule first calls _log_penalty (a remote insert, uncaught when it raises)
\* and only then returns False
is_action_allowed(action, data, logOk) ==
    IF action = 0
    THEN [kind |-> "ok", allowed |-> TRUE, log |-> <<>>,
          calls |-> <<"is_action_allowed">>]
    ELSE LET r == PolicyRule(data)
         IN  IF r = NoRule
             THEN [kind |-> "ok", allowed |-> TRUE, log |-> <<>>,
                   calls |-> <<"is_action_allowed">>]
             ELSE IF ~logOk
             THEN [kind |-> "raise", allowed |-> FALSE, log |-> <<>>,
                   calls |-> <<"is_action_allowed", "_log_penalty!">>]
             ELSE [kind |-> "ok", allowed |-> FALSE,
                   log |-> <<PenaltyRow(data, action, r)>>,
                   calls |-> <<"is_action_allowed", "_log_penalty">>]

----------------------------------------------------------------------------
(* decision_engine: the decision composer *)

critical_stages ==
    {"transplanting", "tillering", "panicle_initiation", "flowering",
     "cri", "tasseling", "silking"}

Reason(text, stage) == [text |-> text, stage |-> stage]

HeavyRain == Reason("Recent heavy rainfall detected", "")
MoistureSufficient == Reason("Soil moisture is sufficient", "")
PulsesWaterlogging == Reason("Pulses are sensitive to waterlogging", "")
CriticalStage(stage) == Reason("Critical growth stage", stage)
RLSelected == Reason("RL policy selected action", "")
FallbackML == Reason("Fallback to ML prediction", "")
NoReason == Reason("", "")

Raised(rl, log, calls_) ==
    [kind |-> "raise", decision |-> 0, reason |-> NoReason,
     rl_action |-> rl, log |-> log, calls |-> calls_]

Returned(decision, reason, rl, log, calls_) ==
    [kind |-> "ok", decision |-> decision, reason |-> reason,
     rl_action |-> rl, log |-> log, calls |-> calls_]

\* GateAndFallback whose fallback returns the RL action where the code
\* returns int(ml_prediction)
GateAndFallback_RLOnBlock(ml_prediction, data, rl_action, env, calls0) ==
    LET g1 == is_action_allowed(rl_action, data, env.logOk1)
        critical == data.growth_stage \in critical_stages
        log1 == IF critical THEN g1.log ELSE <<>>
        calls1 == IF critical THEN calls0 \o g1.calls ELSE calls0
        g2 == is_action_allowed(rl_action, data, env.logOk2)
    IN  IF critical /\ g1.kind = "raise"
        THEN Raised(rl_action, log1, calls1)
        ELSE IF critical /\ g1.allowed
        THEN Returned(rl_action, CriticalStage(data.growth_stage),
                      rl_action, log1, calls1)
        ELSE IF g2.kind = "raise"
        THEN Raised(rl_action, log1 \o g2.log, calls1 \o g2.calls)
        ELSE IF g2.allowed
        THEN Returned(rl_action, RLSelected, rl_action,
                      log1 \o g2.log, calls1 \o g2.calls)
        ELSE Returned(rl_action, FallbackML, rl_action,
                      log1 \o g2.log, calls1 \o g2.calls)

\* decide_action lines 52-72: the critical-stage check, the RL decision and
\* the fallback, once rules 1-3 did not return
GateAndFallback(ml_prediction, data, rl_action, env, calls0) ==
    LET g1 == is_action_allowed(rl_action, data, env.logOk1)
        critical == data.growth_stage \in critical_stages
        log1 == IF critical THEN g1.log ELSE <<>>
        calls1 == IF critical THEN calls0 \o g1.calls ELSE calls0
        g2 == is_action_allowed(rl_action, data, env.logOk2)
    IN  IF critical /\ g1.kind = "raise"
        THEN Raised(rl_action, log1, calls1)
        ELSE IF critical /\ g1.allowed
        THEN Returned(rl_action, CriticalStage(data.growth_stage),
                      rl_action, log1, calls1)
        ELSE IF g2.kind = "raise"
        THEN Raised(rl_action, log1 \o g2.log, calls1 \o g2.calls)
        ELSE IF g2.allowed
        THEN Returned(rl_action, RLSelected, rl_action,
                      log1 \o g2.log, calls1 \o g2.calls)
        ELSE Returned(ml_prediction, FallbackML, rl_action,
                      log1 \o g2.log, calls1 \o g2.calls)

\* decide_action: get_state and choose_action run first (lines 13-16), then
\* rules 1-3, then the gate
decide_action(table, ml_prediction, data, env) ==
    LET state == get_state(data)
        ca == choose_action(table, state, env.explore, env.rand, env.readOk)
        calls0 == <<"get_state">> \o ca.calls
    IN  IF ca.kind = "raise" THEN Raised(-1, <<>>, calls0)
        ELSE IF data.rainfall_mm.v >= 80
        THEN Returned(0, HeavyRain, ca.action, <<>>, calls0)
        ELSE IF data.soil_moisture_pct.v >= 65
        THEN Returned(0, MoistureSufficient, ca.action, <<>>, calls0)
        ELSE IF data.crop = "pulses" /\ data.soil_moisture_pct.v > 60
        THEN Returned(0, PulsesWaterlogging, ca.action, <<>>, calls0)
        ELSE GateAndFallback(ml_prediction, data, ca.action, env, calls0)

----------------------------------------------------------------------------
(* regret_engine: the regret evaluator *)

TimesTenths(x, tenths) == (x * tenths) \div 10

\* WeightedRegret with the rainfall adjustment assigned ("=") where the
\* code accumulates ("+=")
WeightedRegret_RainAssigned(action_taken, data) ==
    LET soil_moisture == data.soil_moisture_pct.v
        rainfall == data.rainfall_mm.v
        r0 == Real(1, 0)
        r1 == IF action_taken = 0 /\ soil_moisture < 40
              THEN r0 + Real(1, 50) ELSE r0
        r2 == IF action_taken = 1 /\ soil_moisture > 70
              THEN r1 + Real(1, 50) ELSE r1
        r3 == IF action_taken = 1 /\ rainfall >= 80
              THEN Real(2, 0) ELSE r2
        r4 == IF data.crop = "pulses" THEN TimesTenths(r3, 13) ELSE r3
        r5 == IF data.crop = "rice" THEN TimesTenths(r4, 7) ELSE r4
        r6 == IF data.disease_risk = "high" /\ action_taken = 1
              THEN r5 + Real(1, 0) ELSE r5
    IN  r6

\* calculate_regret lines 25-50, for action_taken # actual_outcome: the
\* additions for moisture and rainfall, then the crop factors, then the
\* disease addition
WeightedRegret(action_taken, data) ==
    LET soil_moisture == data.soil_moisture_pct.v
        rainfall == data.rainfall_mm.v
        r0 == Real(1, 0)
        r1 == IF action_taken = 0 /\ soil_moisture < 40
              THEN r0 + Real(1, 50) ELSE r0
        r2 == IF action_taken = 1 /\ soil_moisture > 70
              THEN r1 + Real(1, 50) ELSE r1
        r3 == IF action_taken = 1 /\ rainfall >= 80
              THEN r2 + Real(2, 0) ELSE r2
        r4 == IF data.crop = "pulses" THEN TimesTenths(r3, 13) ELSE r3
        r5 == IF data.crop = "rice" THEN TimesTenths(r4, 7) ELSE r4
        r6 == IF data.disease_risk = "high" /\ action_taken = 1
              THEN r5 + Real(1, 0) ELSE r5
    IN  r6

\* the comparisons calculate_regret makes raise TypeError on a value that is
\* not a number: soil moisture always, rainfall only for action 1
RegretTypeError(action_taken, data) ==
    \/ ~IsNum(data.soil_moisture_pct)
    \/ action_taken = 1 /\ ~IsNum(data.rainfall_mm)

\* calculate_regret without the early return of line 20-21
calculate_regret_NoEarlyReturn(action_taken, actual_outcome, data) ==
    IF RegretTypeError(action_taken, data)
    THEN [kind |-> "TypeError", v |-> 0]
    ELSE [kind |-> "ok", v |-> WeightedRegret(action_taken, data)]

calculate_regret(action_taken, actual_outcome, data) ==
    IF action_taken = actual_outcome THEN [kind |-> "ok", v |-> 0]
    ELSE IF RegretTypeError(action_taken, data)
    THEN [kind |-> "TypeError", v |-> 0]
    ELSE [kind |-> "ok", v |-> WeightedRegret(action_taken, data)]

\* app.feedback line 248
Reward(regret_score) == Real(10, 0) - regret_score * 5

----------------------------------------------------------------------------
(* rl_engine: the RL updater *)

ALPHA == [num |-> 1, den |-> 10]
GAMMA == [num |-> 9, den |-> 10]

Times(c, x) == (c.num * x) \div c.den

Max2(a, b) == IF a >= b THEN a ELSE b

Some(state) == [some |-> TRUE, state |-> state]

QRow(state, action, q_value) ==
    [soil_moisture_level |-> state.soil_moisture_level,
     rainfall_level      |-> state.rainfall_level,
     crop                |-> state.crop,
     growth_stage        |-> state.growth_stage,
     disease_risk        |-> state.disease_risk,
     action              |-> action,
     q_value             |-> q_value,
     visit_count         |-> 1]

\* an upsert that replaces the whole table by the row
Upsert_DropOthers(table, row) == {row}

\* an upsert that counts the writes to the key in visit_count
Upsert_CountVisits(table, row) ==
    LET old == {r \in table :
                  RowState(r) = RowState(row) /\ r.action = row.action}
    IN  (table \ old)
          \cup {[row EXCEPT !.visit_count =
                    IF old = {} THEN 1
                    ELSE (CHOOSE r \in old : TRUE).visit_count + 1]}

\* an upsert that adds the row and keeps the one already stored for the key
Upsert_Insert(table, row) == table \cup {row}

\* upsert with on_conflict on the five state columns and action
Upsert(table, row) ==
    {r \in table : ~(RowState(r) = RowState(row) /\ r.action = row.action)}
        \cup {row}

\* the value to write without the lookahead term, whatever next_state is
NewQ_NoLookahead(current_q, reward, next_state, next_max_q) ==
    current_q + Times(ALPHA, reward)

\* update_q_table lines 94-102: the value to write
NewQ(current_q, reward, next_state, next_max_q) ==
    IF next_state.some
    THEN current_q + Times(ALPHA, reward + Times(GAMMA, next_max_q) - current_q)
    ELSE current_q + Times(ALPHA, reward)

\* update_q_table: read current_q, read next_state's values when next_state
\* is given, upsert; env.fault names the remote call that raises, if any
update_q_table(table, state, action, reward, next_state, env) ==
    LET f1 == fetch_q_values(table, state, env.fault # "read1")
        f2 == fetch_q_values(table, next_state.state, env.fault # "read2")
        new_q == NewQ(f1.q[action], reward, next_state,
                      Max2(f2.q[0], f2.q[1]))
    IN  IF f1.kind = "raise"
        THEN [kind |-> "raise", table |-> table,
              calls |-> <<"update_q_table", "fetch_q_values!">>]
        ELSE IF next_state.some /\ f2.kind = "raise"
        THEN [kind |-> "raise", table |-> table,
              calls |-> <<"update_q_table", "fetch_q_values",
                          "fetch_q_values!">>]
        ELSE LET calls_ == <<"update_q_table", "fetch_q_values">>
                     \o (IF next_state.some
                         THEN <<"fetch_q_values">> ELSE <<>>)
             IN  IF env.fault = "write"
                 THEN [kind |-> "raise", table |-> table,
                       calls |-> calls_ \o <<"upsert!">>]
                 ELSE [kind |-> "ok",
                       table |-> Upsert(table, QRow(state, action, new_q)),
                       calls |-> calls_ \o <<"upsert">>]

----------------------------------------------------------------------------
(* api/app.py: responses *)

Response(kind, http, final_decision, reason, ml_prediction, regret_score, reward) ==
    [kind |-> kind, http |-> http, final_decision |-> final_decision,
     reason |-> reason, ml_prediction |-> ml_prediction,
     regret_score |-> regret_score, reward |-> reward]

NoResponse == Response("none", 0, 0, NoReason, 0, 0, 0)

\* an early "return jsonify({"error": ...}), 400"
BadRequest == Response("bad_request", 400, 0, NoReason, 0, 0, 0)

\* handle_exception lines 68-73: any uncaught exception becomes
\* {"status": "error", "message": ...} with status 200
handle_exception == Response("error", 200, 0, NoReason, 0, 0, 0)

----------------------------------------------------------------------------
(* api/app.py: /decide *)

\* decide lines 120-131: safe_value on the numeric fields, then the risk
\* levels; data["crop"] and data["growth_stage"] stay as received
Sanitize(d) ==
    LET disease == safe_value(d.disease_risk_score)
        pest == safe_value(d.pest_risk_score)
    IN  [crop               |-> d.crop,
         growth_stage       |-> d.growth_stage,
         soil_moisture_pct  |-> safe_value(d.soil_moisture_pct),
         rainfall_mm        |-> safe_value(d.rainfall_mm),
         disease_risk_score |-> disease,
         pest_risk_score    |-> pest,
         disease_risk       |-> RiskLevel(disease),
         pest_risk          |-> RiskLevel(pest)]

\* decide lines 138-154: 0 without a model or when predict raises
MLPrediction(model, env) ==
    IF model = "None" THEN 0
    ELSE IF ~env.predictOk THEN 0
    ELSE env.predicted

\* no reading reached the core
NoCoreData == [crop |-> NoCrop]

Outcome(resp_, log, calls_, rl, data) ==
    [resp |-> resp_, log |-> log, calls |-> calls_, rl_action |-> rl,
     data |-> data]

\* decide lines 140-154: predict is called only with a model loaded
PredictCalls(model, env) ==
    IF model = "None" THEN <<>>
    ELSE IF env.predictOk THEN <<"predict">> ELSE <<"predict!">>

\* the /decide handler.  The advisory generators (explanation, fertilizer,
\* pest, irrigation plan) are pure; the journey read and the crop-trace
\* insert are wrapped in try/except and touch only table crop_trace_log,
\* which is not part of this model.
decide(table, model, body, env) ==
    IF body.empty THEN Outcome(BadRequest, <<>>, <<>>, -1, NoCoreData)
    ELSE
    LET data == Sanitize(body.data)
        vc == validate_crop(data.crop)
        ml_prediction == MLPrediction(model, env)
        dr == decide_action(table, ml_prediction, data, env)
        diag == fetch_q_values(table, get_state(data), env.diagOk)
        calls0 == <<"validate_crop">> \o PredictCalls(model, env)
                      \o <<"decide_action">> \o dr.calls
    IN  IF vc.kind = "ValueError"
        THEN Outcome(BadRequest, <<>>, <<"validate_crop">>, -1, NoCoreData)
        ELSE IF dr.kind = "raise"
        THEN Outcome(handle_exception, dr.log, calls0, dr.rl_action, data)
        ELSE IF diag.kind = "raise"
        THEN Outcome(handle_exception, dr.log,
                     calls0 \o <<"get_q_values", "fetch_q_values!">>,
                     dr.rl_action, data)
        ELSE Outcome(Response("decide", 200, dr.decision, dr.reason,
                              ml_prediction, 0, 0),
                     dr.log,
                     calls0 \o <<"get_q_values", "fetch_q_values">>,
                     dr.rl_action, data)

----------------------------------------------------------------------------
(* api/app.py: /feedback *)

\* discretize_* compare the raw values: TypeError unless both are numbers
GetStateTypeError(data) ==
    ~IsNum(data.soil_moisture_pct) \/ ~IsNum(data.rainfall_mm)

FeedbackOutcome(resp_, table, calls_, data) ==
    [resp |-> resp_, table |-> table, calls |-> calls_, data |-> data]

\* the /feedback handler: body["data"] goes to the core as received
feedback(table, body, env) ==
    IF body.empty THEN FeedbackOutcome(BadRequest, table, <<>>, NoCoreData)
    ELSE
    LET rr == calculate_regret(body.final_decision, body.actual_outcome,
                               body.data)
        regret_score == rr.v
        reward == Reward(regret_score)
        state == get_state(body.data)
        up == update_q_table(table, state, body.final_decision, reward,
                             Some(state), env)
    IN  IF rr.kind = "TypeError"
        THEN FeedbackOutcome(handle_exception, table, <<"calculate_regret!">>,
                             body.data)
        ELSE IF GetStateTypeError(body.data)
        THEN FeedbackOutcome(handle_exception, table,
                             <<"calculate_regret", "get_state!">>, body.data)
        ELSE IF up.kind = "raise"
        THEN FeedbackOutcome(handle_exception, table,
                             <<"calculate_regret", "get_state">> \o up.calls,
                             body.data)
        ELSE FeedbackOutcome(
                 Response("feedback", 200, body.final_decision, NoReason, 0,
                          regret_score, reward),
                 up.table,
                 <<"calculate_regret", "get_state">> \o up.calls,
                 body.data)

----------------------------------------------------------------------------
(* Requests the model draws *)

DecideData ==
    [crop               : {"wheat", "pulses", "Pulses", "barley"},
     growth_stage       : {"cri", "vegetative"},
     soil_moisture_pct  : {Num(30), Num(61), Num(72), JNull},
     rainfall_mm        : {Num(0), Num(80)},
     disease_risk_score : {Num(10), Num(80)},
     pest_risk_score    : {Num(10)}]

EmptyDecideBody ==
    [empty |-> TRUE,
     data |-> [crop |-> NoCrop, growth_stage |-> "", soil_moisture_pct |-> JNull,
               rainfall_mm |-> JNull, disease_risk_score |-> JNull,
               pest_risk_score |-> JNull]]

DecideBodies ==
    {[empty |-> FALSE, data |-> d] : d \in DecideData} \cup {EmptyDecideBody}

\* what the surroundings do during one /decide: the epsilon-greedy draw, the
\* classifier, and at most one remote call that raises
DecideEnvs(model) ==
    {e \in [explore : BOOLEAN, rand : {0, 1}, readOk : BOOLEAN,
            logOk1 : BOOLEAN, logOk2 : BOOLEAN, diagOk : BOOLEAN,
            predictOk : BOOLEAN, predicted : {0, 1}] :
        /\ (model = "None" => e.predictOk /\ e.predicted = 0)
        /\ (~e.explore => e.rand = 0)
        /\ (e.explore => e.readOk)
        /\ (~e.predictOk => e.predicted = 0)
        /\ Cardinality({f \in {"readOk", "logOk1", "logOk2", "diagOk"} :
                            ~e[f]}) <= 1}

\* readings of two listed crops, and one of a crop that is not listed
FeedbackData ==
    [crop              : {"wheat", "pulses"},
     growth_stage      : {"cri"},
     soil_moisture_pct : {Num(30), Num(75), JNull},
     rainfall_mm       : {Num(0), Num(85)},
     disease_risk      : {"low", "high"}]
    \cup
    [crop              : {"barley"},
     growth_stage      : {"cri"},
     soil_moisture_pct : {Num(30)},
     rainfall_mm       : {Num(0)},
     disease_risk      : {"low"}]

EmptyFeedbackBody ==
    [empty |-> TRUE, final_decision |-> 0, actual_outcome |-> 0,
     data |-> [crop |-> NoCrop, growth_stage |-> "", soil_moisture_pct |-> JNull,
               rainfall_mm |-> JNull, disease_risk |-> ""]]

FeedbackBodies ==
    {[empty |-> FALSE, final_decision |-> a, actual_outcome |-> o, data |-> d] :
        a \in ACTION_SPACE, o \in ACTION_SPACE, d \in FeedbackData}
    \cup {EmptyFeedbackBody}

FeedbackEnvs == [fault : {"none", "read1", "read2", "write"}]

\* rl_q_table outlives the process: at start-up it is empty or holds what an
\* earlier /feedback wrote (here: a correct irrigation of dry wheat)
SeedBodies ==
    {b \in FeedbackBodies :
        /\ ~b.empty
        /\ b.final_decision = 1 /\ b.actual_outcome = 1
        /\ b.data.crop = "wheat"
        /\ b.data.soil_moisture_pct = Num(30)
        /\ b.data.rainfall_mm = Num(0)}

InitTables ==
    {{}} \cup {feedback({}, b, [fault |-> "none"]).table : b \in SeedBodies}

----------------------------------------------------------------------------
(* The service *)

NoRequest == [op |-> "none", body |-> EmptyDecideBody]

RegretData ==
    [crop              : ALLOWED_CROPS,
     growth_stage      : {"cri"},
     soil_moisture_pct : {Num(30), Num(40), Num(70), Num(75)},
     rainfall_mm       : {Num(0), Num(80), Num(85)},
     disease_risk      : {"low", "high"}]

RgIdle ==
    LET d == [crop |-> "wheat", growth_stage |-> "cri",
              soil_moisture_pct |-> Num(0), rainfall_mm |-> Num(0),
              disease_risk |-> "low"]
    IN  [called |-> FALSE, action_taken |-> 0, actual_outcome |-> 0,
         d1 |-> d, d2 |-> d,
         r1 |-> [kind |-> "ok", v |-> 0], r2 |-> [kind |-> "ok", v |-> 0]]

\* update_q_table's next_state=None
NoNextState ==
    [some |-> FALSE,
     state |-> [soil_moisture_level |-> "", rainfall_level |-> "", crop |-> "",
                growth_stage |-> "", disease_risk |-> ""]]

UqIdle ==
    [state |-> NoNextState.state, action |-> 0, reward |-> 0,
     next_state |-> NoNextState, n |-> 0, before |-> {}, first |-> {},
     last |-> "none", replayed |-> FALSE]

ChIdle == [state |-> NoNextState.state, epsilon |-> 0, results |-> <<>>]

PgIdle ==
    [data |-> [crop |-> "wheat", growth_stage |-> "cri",
               soil_moisture_pct |-> Num(0), rainfall_mm |-> Num(0),
               disease_risk |-> "low", pest_risk |-> "low"],
     n |-> 0, action |-> 0, result |-> "none", before |-> <<>>]

RaceIdle ==
    [state |-> NoNextState.state, action |-> 0, next_state |-> NoNextState,
     reward |-> <<0, 0>>, pc |-> <<"idle", "idle">>, current_q |-> <<0, 0>>,
     new_q |-> <<0, 0>>, writes |-> <<>>, start |-> {}]

GsIdle == [data |-> PgIdle.data, called |-> FALSE, state |-> NoNextState.state]

Init ==
    /\ qtable \in InitTables
    /\ penalties = <<>>
    /\ ml_model \in {"None", "xgb"}
    /\ req = NoRequest
    /\ resp = NoResponse
    /\ calls = <<>>
    /\ rl_chosen = -1
    /\ core_data = NoCoreData
    /\ nreq = 0
    /\ race = RaceIdle
    /\ gs = GsIdle
    /\ rg = RgIdle
    /\ uq = UqIdle
    /\ ch = ChIdle
    /\ pg = PgIdle

\* POST /decide
Decide ==
    /\ req = NoRequest
    /\ nreq < MaxRequests
    /\ \E body \in DecideBodies, env \in DecideEnvs(ml_model) :
         LET out == decide(qtable, ml_model, body, env)
         IN  /\ req' = [op |-> "decide", body |-> body]
             /\ resp' = out.resp
             /\ penalties' = penalties \o out.log
             /\ calls' = out.calls
             /\ rl_chosen' = out.rl_action
             /\ core_data' = out.data
    /\ nreq' = nreq + 1
    /\ UNCHANGED <<qtable, ml_model, rg, uq, ch, pg, race, gs>>

\* POST /feedback
Feedback ==
    /\ req = NoRequest
    /\ nreq < MaxRequests
    /\ \E body \in FeedbackBodies, env \in FeedbackEnvs :
         LET out == feedback(qtable, body, env)
         IN  /\ req' = [op |-> "feedback", body |-> body]
             /\ resp' = out.resp
             /\ qtable' = out.table
             /\ calls' = out.calls
             /\ core_data' = out.data
    /\ rl_chosen' = -1
    /\ nreq' = nreq + 1
    /\ UNCHANGED <<penalties, ml_model, rg, uq, ch, pg, race, gs>>

\* the response is sent and the request context is dropped; the tables stay
Done ==
    /\ req # NoRequest
    /\ req' = NoRequest
    /\ resp' = NoResponse
    /\ calls' = <<>>
    /\ rl_chosen' = -1
    /\ core_data' = NoCoreData
    /\ UNCHANGED <<qtable, penalties, ml_model, nreq, rg, uq, ch, pg, race, gs>>

Next == Decide \/ Feedback \/ Done

Spec == Init /\ [][Next]_vars

----------------------------------------------------------------------------
(* calculate_regret on its own: the inputs are two readings of one crop and
   an action and outcome; the call scores both readings *)

InitRegret ==
    /\ qtable = {}
    /\ penalties = <<>>
    /\ ml_model = "None"
    /\ req = NoRequest
    /\ resp = NoResponse
    /\ calls = <<>>
    /\ rl_chosen = -1
    /\ core_data = NoCoreData
    /\ nreq = 0
    /\ race = RaceIdle
    /\ gs = GsIdle
    /\ uq = UqIdle
    /\ ch = ChIdle
    /\ pg = PgIdle
    /\ \E a \in ACTION_SPACE, o \in ACTION_SPACE,
          d1 \in RegretData, d2 \in RegretData :
         /\ d1.crop = d2.crop
         /\ rg = [RgIdle EXCEPT !.action_taken = a, !.actual_outcome = o,
                                !.d1 = d1, !.d2 = d2]

RegretCall ==
    /\ ~rg.called
    /\ rg' = [rg EXCEPT
                !.called = TRUE,
                !.r1 = calculate_regret(rg.action_taken, rg.actual_outcome,
                                        rg.d1),
                !.r2 = calculate_regret(rg.action_taken, rg.actual_outcome,
                                        rg.d2)]
    /\ UNCHANGED <<qtable, penalties, ml_model, req, resp, calls, rl_chosen,
                   core_data, nreq, uq, ch, pg, race, gs>>

NextRegret == RegretCall

SpecRegret == InitRegret /\ [][NextRegret]_vars

----------------------------------------------------------------------------
(* update_q_table on its own: the arguments are drawn once, the call is made
   and made again with the same arguments; the store may also receive the
   first call's write a second time *)

MaxUpdateCalls == 2

\* the states that hold a row in some stored table
SeededStates == {RowState(row) : row \in UNION InitTables}

\* states of the feedback readings, and the seeded states at another stage
UpdateStates ==
    {get_state(d) : d \in {x \in FeedbackData : ~GetStateTypeError(x)}}
    \cup {[s EXCEPT !.growth_stage = "vegetative"] : s \in SeededStates}

\* next_state: None, the state itself (as /feedback passes it), or a state
\* that holds a row
NextStates(state) ==
    {NoNextState, Some(state)} \cup {Some(s) : s \in SeededStates}

\* rewards /feedback computes: regret 0.0, 1.0 and 2.5
UpdateRewards == {Reward(0), Reward(Real(1, 0)), Reward(Real(2, 50))}

InitUpdate ==
    /\ qtable \in InitTables
    /\ penalties = <<>>
    /\ ml_model = "None"
    /\ req = NoRequest
    /\ resp = NoResponse
    /\ calls = <<>>
    /\ rl_chosen = -1
    /\ core_data = NoCoreData
    /\ nreq = 0
    /\ race = RaceIdle
    /\ gs = GsIdle
    /\ rg = RgIdle
    /\ ch = ChIdle
    /\ pg = PgIdle
    /\ \E state \in UpdateStates, action \in ACTION_SPACE,
          reward \in UpdateRewards :
         \E next_state \in NextStates(state) :
            uq = [UqIdle EXCEPT
                    !.state = state, !.action = action, !.reward = reward,
                    !.next_state = next_state,
                    !.before = qtable]

\* update_q_table(state, action, reward, next_state)
UpdateCall ==
    /\ uq.n < MaxUpdateCalls
    /\ ~uq.replayed
    /\ \E env \in FeedbackEnvs :
         LET up == update_q_table(qtable, uq.state, uq.action, uq.reward,
                                  uq.next_state, env)
         IN  /\ qtable' = up.table
             /\ uq' = [uq EXCEPT
                         !.n = IF up.kind = "ok" THEN @ + 1 ELSE @,
                         !.first = IF up.kind = "ok" /\ uq.n = 0
                                   THEN up.table ELSE @,
                         !.last = up.kind]
    /\ UNCHANGED <<penalties, ml_model, req, resp, calls, rl_chosen,
                   core_data, nreq, rg, ch, pg, race, gs>>

\* the q-values the store holds before the first call
StoredBefore(state) == fetch_q_values(uq.before, state, TRUE).q

\* the row the first call wrote
FirstWrite ==
    QRow(uq.state, uq.action,
         NewQ(StoredBefore(uq.state)[uq.action], uq.reward, uq.next_state,
              Max2(StoredBefore(uq.next_state.state)[0],
                   StoredBefore(uq.next_state.state)[1])))

\* the upsert of lines 105-117 reaches the store a second time with the
\* same row
UpsertAgain ==
    /\ uq.n = 1
    /\ ~uq.replayed
    /\ qtable' = Upsert(qtable, FirstWrite)
    /\ uq' = [uq EXCEPT !.replayed = TRUE]
    /\ UNCHANGED <<penalties, ml_model, req, resp, calls, rl_chosen,
                   core_data, nreq, rg, ch, pg, race, gs>>

NextUpdate == UpdateCall \/ UpsertAgain

SpecUpdate == InitUpdate /\ [][NextUpdate]_vars

----------------------------------------------------------------------------
(* choose_action on its own: a stored table, a state and an epsilon are
   drawn once and choose_action is called repeatedly *)

MaxChooseCalls == 3

\* draws of random.random(), in hundredths
RandomDraws == {0, 9, 10, 99}

\* q-values update_q_table writes to an empty row (ALPHA * reward), and 0.0
QValues == {0 - Real(0, 25), 0, Real(0, 50), Real(1, 0)}

ChooseStates ==
    {s \in UpdateStates :
        /\ s.crop = "wheat" /\ s.disease_risk = "low"
        /\ s.rainfall_level = "low" /\ s.growth_stage = "cri"}

\* rl_q_table with, for dry wheat, a row or none for each action
ChooseTables ==
    LET s0 == CHOOSE s \in ChooseStates : s.soil_moisture_level = "low"
        Rows(a) == {{}} \cup {{QRow(s0, a, q)} : q \in QValues}
    IN  {r0 \cup r1 : r0 \in Rows(0), r1 \in Rows(1)}

InitChoose ==
    /\ qtable \in ChooseTables
    /\ penalties = <<>>
    /\ ml_model = "None"
    /\ req = NoRequest
    /\ resp = NoResponse
    /\ calls = <<>>
    /\ rl_chosen = -1
    /\ core_data = NoCoreData
    /\ nreq = 0
    /\ race = RaceIdle
    /\ gs = GsIdle
    /\ rg = RgIdle
    /\ uq = UqIdle
    /\ pg = PgIdle
    /\ \E state \in ChooseStates, epsilon \in {0, EPSILON} :
         ch = [ChIdle EXCEPT !.state = state, !.epsilon = epsilon]

\* choose_action(state)
ChooseCall ==
    /\ Len(ch.results) < MaxChooseCalls
    /\ \E random \in RandomDraws, rand \in ACTION_SPACE, readOk \in BOOLEAN :
         LET ca == choose_action(qtable, ch.state,
                                 Explores(ch.epsilon, random), rand, readOk)
         IN  ch' = [ch EXCEPT
                      !.results = Append(@, [kind |-> ca.kind,
                                             action |-> ca.action])]
    /\ UNCHANGED <<qtable, penalties, ml_model, req, resp, calls, rl_chosen,
                   core_data, nreq, rg, uq, pg, race, gs>>

NextChoose == ChooseCall

SpecChoose == InitChoose /\ [][NextChoose]_vars

----------------------------------------------------------------------------
(* is_action_allowed on its own: a reading is drawn once and the gate is
   asked about it repeatedly, for either action *)

MaxGateCalls == 2

GateData ==
    [crop              : ALLOWED_CROPS,
     growth_stage      : {"cri"},
     soil_moisture_pct : {Num(30), Num(61), Num(66), Num(70), Num(81)},
     rainfall_mm       : {Num(0), Num(80)},
     disease_risk      : {"low", "high"},
     pest_risk         : {"low"}]

InitGate ==
    /\ qtable = {}
    /\ penalties = <<>>
    /\ ml_model = "None"
    /\ req = NoRequest
    /\ resp = NoResponse
    /\ calls = <<>>
    /\ rl_chosen = -1
    /\ core_data = NoCoreData
    /\ nreq = 0
    /\ race = RaceIdle
    /\ gs = GsIdle
    /\ rg = RgIdle
    /\ uq = UqIdle
    /\ ch = ChIdle
    /\ \E data \in GateData : pg = [PgIdle EXCEPT !.data = data]

\* is_action_allowed(action, data)
GateCall ==
    /\ pg.n < MaxGateCalls
    /\ \E action \in ACTION_SPACE, logOk \in BOOLEAN :
         LET g == is_action_allowed(action, pg.data, logOk)
         IN  /\ penalties' = penalties \o g.log
             /\ pg' = [pg EXCEPT
                         !.n = @ + 1,
                         !.action = action,
                         !.result = IF g.kind = "raise" THEN "raise"
                                    ELSE IF g.allowed THEN "True"
                                    ELSE "False",
                         !.before = penalties]
    /\ UNCHANGED <<qtable, ml_model, req, resp, calls, rl_chosen, core_data,
                   nreq, rg, uq, ch, race, gs>>

NextGate == GateCall

SpecGate == InitGate /\ [][NextGate]_vars

----------------------------------------------------------------------------
(* two update_q_table calls for one (state, action) running concurrently,
   as two /feedback requests served by different threads or workers do: each
   call is three remote calls (read of line 94, read of line 98, upsert of
   line 105) and the store serves one remote call at a time *)

Writers == {1, 2}

\* the q_value a writer upserts with the table re-read at write time
WrittenValue_Reread(table, r, w) ==
    LET q == fetch_q_values(table, r.state, TRUE).q
        n == fetch_q_values(table, r.next_state.state, TRUE).q
    IN  NewQ(q[r.action], r.reward[w], r.next_state, Max2(n[0], n[1]))

\* line 113: the q_value a writer upserts is the new_q it computed
WrittenValue(table, r, w) == r.new_q[w]

InitRace ==
    /\ qtable \in InitTables
    /\ penalties = <<>>
    /\ ml_model = "None"
    /\ req = NoRequest
    /\ resp = NoResponse
    /\ calls = <<>>
    /\ rl_chosen = -1
    /\ core_data = NoCoreData
    /\ nreq = 0
    /\ rg = RgIdle
    /\ uq = UqIdle
    /\ ch = ChIdle
    /\ pg = PgIdle
    /\ gs = GsIdle
    /\ \E state \in SeededStates, action \in ACTION_SPACE,
          given \in BOOLEAN, r1 \in UpdateRewards, r2 \in UpdateRewards :
         race = [RaceIdle EXCEPT
                   !.state = state, !.action = action,
                   !.next_state = IF given THEN Some(state) ELSE NoNextState,
                   !.reward = <<r1, r2>>,
                   !.pc = <<"read_q", "read_q">>,
                   !.start = qtable]

\* line 94: current_q = fetch_q_values(state)[action]
ReadCurrent(w) ==
    /\ race.pc[w] = "read_q"
    /\ LET q == fetch_q_values(qtable, race.state, TRUE).q[race.action]
       IN  race' = [race EXCEPT
                      !.current_q[w] = q,
                      !.new_q[w] = IF race.next_state.some THEN @
                                   ELSE NewQ(q, race.reward[w],
                                             race.next_state, 0),
                      !.pc[w] = IF race.next_state.some
                                THEN "read_next" ELSE "write"]
    /\ UNCHANGED <<qtable, penalties, ml_model, req, resp, calls, rl_chosen,
                   core_data, nreq, rg, uq, ch, pg, gs>>

\* lines 98-99: next_max_q and new_q
ReadNext(w) ==
    /\ race.pc[w] = "read_next"
    /\ LET n == fetch_q_values(qtable, race.next_state.state, TRUE).q
       IN  race' = [race EXCEPT
                      !.new_q[w] = NewQ(race.current_q[w], race.reward[w],
                                        race.next_state, Max2(n[0], n[1])),
                      !.pc[w] = "write"]
    /\ UNCHANGED <<qtable, penalties, ml_model, req, resp, calls, rl_chosen,
                   core_data, nreq, rg, uq, ch, pg, gs>>

\* lines 105-117: the upsert
Write(w) ==
    /\ race.pc[w] = "write"
    /\ qtable' = Upsert(qtable, QRow(race.state, race.action,
                                    WrittenValue(qtable, race, w)))
    /\ race' = [race EXCEPT !.pc[w] = "done", !.writes = Append(@, w)]
    /\ UNCHANGED <<penalties, ml_model, req, resp, calls, rl_chosen,
                   core_data, nreq, rg, uq, ch, pg, gs>>

NextRace == \E w \in Writers : ReadCurrent(w) \/ ReadNext(w) \/ Write(w)

SpecRace == InitRace /\ [][NextRace]_vars

----------------------------------------------------------------------------
(* get_state on its own: a sanitized reading and a stored table are drawn
   and get_state is applied to the reading *)

StateData ==
    [crop              : {"wheat", "pulses"},
     growth_stage      : {"cri", "vegetative"},
     soil_moisture_pct : {Num(0), Num(39), Num(40), Num(64), Num(65), Num(100)},
     rainfall_mm       : {Num(0), Num(29), Num(30), Num(79), Num(80)},
     disease_risk      : {"low", "medium", "high"},
     pest_risk         : {"low"}]

InitState ==
    /\ qtable \in InitTables
    /\ penalties = <<>>
    /\ ml_model = "None"
    /\ req = NoRequest
    /\ resp = NoResponse
    /\ calls = <<>>
    /\ rl_chosen = -1
    /\ core_data = NoCoreData
    /\ nreq = 0
    /\ rg = RgIdle
    /\ uq = UqIdle
    /\ ch = ChIdle
    /\ pg = PgIdle
    /\ race = RaceIdle
    /\ \E data \in StateData : gs = [GsIdle EXCEPT !.data = data]

\* get_state(data)
StateCall ==
    /\ ~gs.called
    /\ gs' = [gs EXCEPT !.called = TRUE, !.state = get_state(gs.data)]
    /\ UNCHANGED <<qtable, penalties, ml_model, req, resp, calls, rl_chosen,
                   core_data, nreq, rg, uq, ch, pg, race>>

NextState == StateCall

SpecState == InitState /\ [][NextState]_vars

----------------------------------------------------------------------------
(* Properties *)

Called(name) == \E i \in DOMAIN calls : calls[i] = name

\* the reading of the /decide request in hand, as the core receives it
DecideServed == req.op = "decide" /\ ~req.body.empty
Reading == Sanitize(req.body.data)
CropAccepted == validate_crop(req.body.data.crop).kind = "ok"

\* decide() gave a DecisionResult
Decided == resp.kind = "decide"

\* is_action_allowed(1, data) is False
GateBlocks(data) == PolicyRule(data) # NoRule

\* C1: whenever the policy gate blocks action 1 for the reading, the
\* decision decide() returns is not 1.
C1_VetoIsFinal ==
    (DecideServed /\ Decided /\ GateBlocks(Reading))
        => resp.final_decision # 1

\* C2: every accepted reading with rainfall_mm >= 80 gets decision 0 with
\* the heavy-rainfall reason, whatever the other fields, the predictor lean,
\* the stored q-values and the exploration/exploitation branch.
C2_HeavyRain ==
    (DecideServed /\ CropAccepted /\ Reading.rainfall_mm.v >= 80)
        => (Decided /\ resp.final_decision = 0 /\ resp.reason = HeavyRain)

\* C3: every reading with crop pulses, rainfall_mm < 80 and soil moisture
\* strictly between 60 and 65 gets decision 0 with the waterlogging reason,
\* also in a critical growth stage.
C3_PulsesWaterlogging ==
    (/\ DecideServed
     /\ Reading.crop = "pulses"
     /\ Reading.rainfall_mm.v < 80
     /\ Reading.soil_moisture_pct.v > 60
     /\ Reading.soil_moisture_pct.v < 65)
        => (/\ Decided
            /\ resp.final_decision = 0
            /\ resp.reason = PulsesWaterlogging)

\* C4: every accepted reading with rainfall_mm < 80 and soil moisture >= 65
\* gets decision 0 with the moisture-sufficient reason, and decide_action
\* makes no RL action selection, no q-value lookup and no policy gate call
\* on that path.
C4_ShortCircuit ==
    (/\ DecideServed
     /\ CropAccepted
     /\ Reading.rainfall_mm.v < 80
     /\ Reading.soil_moisture_pct.v >= 65)
        => (/\ Decided
            /\ resp.final_decision = 0
            /\ resp.reason = MoistureSufficient
            /\ ~Called("choose_action")
            /\ ~Called("is_action_allowed"))

\* the additive conditions of the regret evaluator that a reading meets
Qualifying(action_taken, data) ==
    {c \in {"dry_missed", "wet_irrigated", "rain_irrigated",
            "disease_irrigated"} :
        \/ c = "dry_missed" /\ action_taken = 0
                /\ data.soil_moisture_pct.v < 40
        \/ c = "wet_irrigated" /\ action_taken = 1
                /\ data.soil_moisture_pct.v > 70
        \/ c = "rain_irrigated" /\ action_taken = 1
                /\ data.rainfall_mm.v >= 80
        \/ c = "disease_irrigated" /\ action_taken = 1
                /\ data.disease_risk = "high"}

\* C5: calculate_regret is exactly 0.0 when action_taken = actual_outcome,
\* for every crop, moisture, rainfall and disease risk, and never negative.
C5_ZeroRegretWhenCorrect ==
    rg.called =>
        /\ rg.r1.kind = "ok" /\ rg.r1.v >= 0
        /\ (rg.action_taken = rg.actual_outcome => rg.r1.v = 0)

\* C5 witness: a correct irrigation of wet, rained-on, diseased pulses, where
\* every weighting would apply, scored 0.
C5_Witness ==
    /\ rg.called
    /\ rg.action_taken = 1 /\ rg.actual_outcome = 1
    /\ rg.d1.crop = "pulses"
    /\ Cardinality(Qualifying(1, rg.d1)) = 3
    /\ rg.r1.v = 0

\* C6: feedback(1, 0, {pulses, 75, 85, high}) answers regret_score 7.15 and
\* reward -25.75.
C6_Scenario3 ==
    (/\ req.op = "feedback"
     /\ resp.kind = "feedback"
     /\ req.body.final_decision = 1 /\ req.body.actual_outcome = 0
     /\ req.body.data.crop = "pulses"
     /\ req.body.data.soil_moisture_pct = Num(75)
     /\ req.body.data.rainfall_mm = Num(85)
     /\ req.body.data.disease_risk = "high")
        => (/\ resp.regret_score = Real(7, 15)
            /\ resp.reward = 0 - Real(25, 75))

\* C7: for action_taken # actual_outcome and one crop, a reading that meets
\* one more additive condition than another never scores less.
C7_RegretMonotone ==
    (/\ rg.called
     /\ rg.action_taken # rg.actual_outcome
     /\ Qualifying(rg.action_taken, rg.d1)
            \subseteq Qualifying(rg.action_taken, rg.d2)
     /\ Cardinality(Qualifying(rg.action_taken, rg.d2))
            = Cardinality(Qualifying(rg.action_taken, rg.d1)) + 1)
        => rg.r1.v <= rg.r2.v

\* C7 witness: irrigating wet soil, and the same with heavy rain on top.
C7_Witness ==
    /\ rg.called
    /\ rg.action_taken = 1 /\ rg.actual_outcome = 0
    /\ Qualifying(1, rg.d1) = {"wet_irrigated"}
    /\ Qualifying(1, rg.d2) = {"wet_irrigated", "rain_irrigated"}
    /\ rg.r1.v < rg.r2.v

\* C8: a failing q-value read is answered with the all-zero map, so decide()
\* still returns a DecisionResult.
C8_ReadFailureTolerated ==
    (DecideServed /\ Called("fetch_q_values!")) => Decided

\* C9: a failing penalty insert is swallowed: the veto stands and decide()
\* still returns a DecisionResult.
C9_LogFailureSwallowed ==
    (DecideServed /\ Called("_log_penalty!")) => Decided

\* C10: a failing q-value write does not fail /feedback: the response still
\* carries regret_score and reward, and the stored q-values are unchanged.
C10_WriteFailureTolerated ==
    [][(/\ req'.op = "feedback"
        /\ \E i \in DOMAIN calls' : calls'[i] = "upsert!")
          => (/\ resp'.kind = "feedback"
              /\ resp'.regret_score
                    = calculate_regret(req'.body.final_decision,
                                       req'.body.actual_outcome,
                                       req'.body.data).v
              /\ resp'.reward = Reward(resp'.regret_score)
              /\ qtable' = qtable)]_vars

\* the q-value the store holds for (state, action)
Stored(table, state, action) == fetch_q_values(table, state, TRUE).q[action]

KeyRows(table, state, action) ==
    {row \in table : RowState(row) = state /\ row.action = action}

\* C11: update_q_table invoked twice with identical (state, action, reward,
\* next_state) leaves the same stored q_value as invoking it once.
C11_UpdateIdempotent ==
    uq.n = 2 =>
        Stored(qtable, uq.state, uq.action)
            = Stored(uq.first, uq.state, uq.action)

\* C12: after one update get(state)[action] is the analytically computed
\* new_q, held in exactly one row for the key, and the same upsert performed
\* a second time leaves the store as it was.
C12_UpsertOverwrites ==
    uq.n = 1 =>
        /\ Stored(qtable, uq.state, uq.action) = FirstWrite.q_value
        /\ Cardinality(KeyRows(qtable, uq.state, uq.action)) = 1
        /\ (uq.replayed => qtable = uq.first)

\* C12 witness: the key already held another value before the update, the
\* update replaced it, and the upsert was performed a second time.
C12_Witness ==
    /\ uq.n = 1
    /\ uq.replayed
    /\ KeyRows(uq.before, uq.state, uq.action) # {}
    /\ Stored(uq.before, uq.state, uq.action)
           # Stored(qtable, uq.state, uq.action)

\* C13: with epsilon = 0 every action choose_action returns for a state is
\* the argmax over {0, 1} of the stored q-values, action 0 when Q[0] = Q[1]
\* (absent entries counting 0.0), so repeated calls return the same action.
C13_GreedyDeterministic ==
    ch.epsilon = 0 =>
        \A i \in DOMAIN ch.results :
            ch.results[i].kind = "ok" =>
                ch.results[i].action
                    = (IF Stored(qtable, ch.state, 0)
                            >= Stored(qtable, ch.state, 1)
                       THEN 0 ELSE 1)

\* C13 witness: two calls with epsilon = 0 on a state whose two stored
\* q-values are equal and not zero both returned action 0.
C13_Witness ==
    /\ ch.epsilon = 0
    /\ Len(ch.results) >= 2
    /\ \A i \in DOMAIN ch.results :
           ch.results[i].kind = "ok" /\ ch.results[i].action = 0
    /\ KeyRows(qtable, ch.state, 0) # {}
    /\ Stored(qtable, ch.state, 0) = Stored(qtable, ch.state, 1)
    /\ Stored(qtable, ch.state, 0) # 0

\* C14: when the classifier is unavailable or its predict call fails, the
\* lean given to decide_action is 0 and decide() still returns a
\* DecisionResult, whose fallback decision is then 0.
C14_PredictorContained ==
    (/\ DecideServed
     /\ CropAccepted
     /\ (ml_model = "None" \/ Called("predict!")))
        => (/\ Decided
            /\ resp.ml_prediction = 0
            /\ (resp.reason = FallbackML => resp.final_decision = 0))

\* the request in hand carries a crop validate_crop rejects
CropRejected ==
    /\ req.op \in {"decide", "feedback"}
    /\ ~req.body.empty
    /\ validate_crop(req.body.data.crop).kind = "ValueError"

\* C15: on /decide and on /feedback a crop that is missing or not in the
\* whitelist is rejected with a validation error before the core runs, and
\* no rl_q_table row is ever written for a crop outside the whitelist.
C15_CropValidatedBeforeCore ==
    /\ CropRejected => (resp = BadRequest /\ core_data = NoCoreData)
    /\ \A row \in qtable : row.crop \in ALLOWED_CROPS

\* C16: every soil moisture and rainfall value the core receives, on
\* /decide and on /feedback, is a number.
C16_NumbersReachCore ==
    core_data # NoCoreData =>
        (IsNum(core_data.soil_moisture_pct) /\ IsNum(core_data.rainfall_mm))

\* none of the composer's rules 1-3 matches the reading
NoEarlyRule(data) ==
    /\ data.rainfall_mm.v < 80
    /\ data.soil_moisture_pct.v < 65
    /\ ~(Lower(data.crop) = "pulses" /\ data.soil_moisture_pct.v > 60)

\* the reason of an RL decision for a growth stage
RLReason(stage) ==
    IF stage \in {"transplanting", "tillering", "panicle_initiation",
                  "flowering", "cri", "tasseling", "silking"}
    THEN CriticalStage(stage) ELSE RLSelected

\* C17: when none of rules 1-3 matches, a decision decide() returns is the
\* RL action if the policy gate allows it, with the critical-stage reason in
\* a critical growth stage and the RL reason otherwise, and is the predictor
\* lean with the fallback reason if the gate blocks it.
C17_GateThenFallback ==
    (DecideServed /\ Decided /\ NoEarlyRule(Reading)) =>
        IF rl_chosen = 0 \/ ~GateBlocks(Reading)
        THEN /\ resp.final_decision = rl_chosen
             /\ resp.reason = RLReason(Reading.growth_stage)
        ELSE /\ resp.final_decision = resp.ml_prediction
             /\ resp.reason = FallbackML

\* C17 witness: in a critical growth stage the gate blocked RL action 1 and
\* decide() returned the predictor lean 0 with the fallback reason.
C17_Witness ==
    /\ DecideServed /\ Decided /\ NoEarlyRule(Reading)
    /\ Reading.growth_stage = "cri"
    /\ rl_chosen = 1 /\ GateBlocks(Reading)
    /\ Called("predict")
    /\ resp.final_decision = 0
    /\ resp.reason = FallbackML

\* the gate's decision table as stated: the seven conditions in order, with
\* the rule id the code records and the penalty
GateTable(data) ==
    LET m == data.soil_moisture_pct.v
    IN  << [on |-> data.rainfall_mm.v >= 80,
            rule |-> "RAIN_BLOCK_RULE", penalty |-> Real(2, 0)],
           [on |-> m >= 70,
            rule |-> "HIGH_SOIL_MOISTURE", penalty |-> Real(1, 50)],
           [on |-> data.crop = "pulses" /\ m > 60,
            rule |-> "PULSES_WATERLOGGING_RULE", penalty |-> Real(2, 50)],
           [on |-> data.disease_risk = "high",
            rule |-> "DISEASE_IRRIGATION_BLOCK", penalty |-> Real(3, 0)],
           [on |-> data.crop = "wheat" /\ m > 65,
            rule |-> "WHEAT_OVER_IRRIGATION", penalty |-> Real(1, 20)],
           [on |-> data.crop = "maize" /\ m > 65,
            rule |-> "MAIZE_OVER_IRRIGATION", penalty |-> Real(1, 20)],
           [on |-> data.crop = "sugarcane" /\ m > 80,
            rule |-> "SUGARCANE_EXCESS_MOISTURE", penalty |-> Real(1, 0)] >>

Matching(data) == {i \in DOMAIN GateTable(data) : GateTable(data)[i].on}

FirstMatching(data) ==
    CHOOSE i \in Matching(data) : \A j \in Matching(data) : i <= j

\* C18: for action 1 the gate allows iff none of the seven conditions holds,
\* and a call that blocks appends exactly one record, carrying the rule id
\* and penalty of the first matching rule in the fixed order.
C18_FirstMatchTable ==
    (pg.n > 0 /\ pg.action = 1) =>
        /\ (pg.result = "True") <=> (Matching(pg.data) = {})
        /\ (pg.result = "True" => penalties = pg.before)
        /\ (pg.result = "False" =>
              /\ Len(penalties) = Len(pg.before) + 1
              /\ SubSeq(penalties, 1, Len(pg.before)) = pg.before
              /\ LET rec == penalties[Len(penalties)]
                     first == GateTable(pg.data)[FirstMatching(pg.data)]
                 IN  /\ rec.policy_rule = first.rule
                     /\ rec.penalty_score = first.penalty
                     /\ rec.action = 1
                     /\ ~rec.allowed)

\* C18 witness: action 1 on a reading with rainfall >= 80 and high disease
\* risk was blocked and the one record appended is the rainfall rule's.
C18_Witness ==
    /\ pg.n > 0 /\ pg.action = 1 /\ pg.result = "False"
    /\ pg.data.rainfall_mm.v >= 80
    /\ pg.data.disease_risk = "high"
    /\ Len(penalties) = Len(pg.before) + 1
    /\ penalties[Len(penalties)].policy_rule = "RAIN_BLOCK_RULE"
    /\ penalties[Len(penalties)].penalty_score = Real(2, 0)

\* C19: is_action_allowed(0, data) returns True for every reading and
\* appends no record; the penalty log changes only when action 1 is blocked,
\* and then only by growing at its end.
C19_ZeroAllowedLogAppendOnly ==
    [][/\ (pg'.n > pg.n /\ pg'.action = 0)
            => (pg'.result = "True" /\ penalties' = penalties)
       /\ Len(penalties') >= Len(penalties)
       /\ SubSeq(penalties', 1, Len(penalties)) = penalties
       /\ (penalties' # penalties
            => (pg'.n > pg.n /\ pg'.action = 1 /\ pg'.result = "False"))]_vars

\* C19 witness: after a blocked action 1 left a record, action 0 was asked
\* for the same blocking reading and allowed, the log still holding that one
\* record.
C19_Witness ==
    /\ pg.n = 2 /\ pg.action = 0 /\ pg.result = "True"
    /\ Matching(pg.data) # {}
    /\ Len(penalties) = 1
    /\ penalties = pg.before

\* (1.0 + every qualifying addition) times the crop factor
SumThenFactor(action_taken, data) ==
    LET q == Qualifying(action_taken, data)
        sum == Real(1, 0)
                 + (IF "dry_missed" \in q THEN Real(1, 50) ELSE 0)
                 + (IF "wet_irrigated" \in q THEN Real(1, 50) ELSE 0)
                 + (IF "rain_irrigated" \in q THEN Real(2, 0) ELSE 0)
                 + (IF "disease_irrigated" \in q THEN Real(1, 0) ELSE 0)
    IN  IF data.crop = "pulses" THEN TimesTenths(sum, 13)
        ELSE IF data.crop = "rice" THEN TimesTenths(sum, 7)
        ELSE sum

\* C20: for action_taken # actual_outcome calculate_regret is (1.0 + the sum
\* of all qualifying additions, the disease +1.0 included) times the crop
\* factor, the multiplication applied after all additions.
C20_FactorAfterAdditions ==
    (rg.called /\ rg.action_taken # rg.actual_outcome) =>
        /\ rg.r1.kind = "ok"
        /\ rg.r1.v = SumThenFactor(rg.action_taken, rg.d1)

\* the rows of a table stored under a state and an action, all six key
\* fields compared
RowsAt(table, state, action) ==
    {row \in table :
        /\ row.soil_moisture_level = state.soil_moisture_level
        /\ row.rainfall_level = state.rainfall_level
        /\ row.crop = state.crop
        /\ row.growth_stage = state.growth_stage
        /\ row.disease_risk = state.disease_risk
        /\ row.action = action}

\* the stored q-value, 0.0 if absent
QAt(table, state, action) ==
    IF RowsAt(table, state, action) = {} THEN 0
    ELSE (CHOOSE row \in RowsAt(table, state, action) : TRUE).q_value

\* C21: update_q_table writes q + 0.1 * (reward + 0.9 * max Q(next_state, .)
\* - q) when next_state is given and q + 0.1 * reward when it is absent, q
\* being the stored value, absent entries counting 0.0.
C21_QLearningRule ==
    uq.n = 1 =>
        LET q == QAt(uq.before, uq.state, uq.action)
            n0 == QAt(uq.before, uq.next_state.state, 0)
            n1 == QAt(uq.before, uq.next_state.state, 1)
            m == IF n0 >= n1 THEN n0 ELSE n1
        IN  QAt(qtable, uq.state, uq.action)
                = IF uq.next_state.some
                  THEN q + (uq.reward + (9 * m) \div 10 - q) \div 10
                  ELSE q + uq.reward \div 10

\* C21 witness: an update of a key with no stored row, given a next_state
\* other than the state whose best stored value is not zero, wrote
\* 0.1 * (reward + 0.9 * that value).
C21_Witness ==
    /\ uq.n = 1
    /\ uq.next_state.some
    /\ uq.next_state.state # uq.state
    /\ RowsAt(uq.before, uq.state, uq.action) = {}
    /\ QAt(uq.before, uq.next_state.state, 1) > 0
    /\ QAt(qtable, uq.state, uq.action)
           = (uq.reward + (9 * QAt(uq.before, uq.next_state.state, 1))
                             \div 10) \div 10

\* C22: after a successful /feedback the stored value for (state(reading),
\* action_taken) is q + 0.1 * reward with reward = 10.0 - 5.0 * regret: no
\* lookahead term is included.
C22_FeedbackOnlyPath ==
    [][(req'.op = "feedback" /\ resp'.kind = "feedback") =>
         LET state == get_state(req'.body.data)
             action == req'.body.final_decision
         IN  /\ resp'.reward = Real(10, 0) - 5 * resp'.regret_score
             /\ QAt(qtable', state, action)
                    = QAt(qtable, state, action) + resp'.reward \div 10]_vars

\* C23: whenever one or both of two concurrent updates of one key have
\* written, the stored q_value is the new_q the last writer computed, held
\* in one row: last write wins, nothing is merged.
C23_LastWriteWins ==
    Len(race.writes) > 0 =>
        /\ QAt(qtable, race.state, race.action)
              = race.new_q[race.writes[Len(race.writes)]]
        /\ Cardinality(RowsAt(qtable, race.state, race.action)) = 1

\* C23 witness: a lost update.  Both writers are done, the first write
\* changed the stored value, and the last writer had read the value from
\* before that write, so the final value holds the last writer's update
\* only.
C23_Witness ==
    /\ \A w \in Writers : race.pc[w] = "done"
    /\ race.new_q[race.writes[1]]
          # QAt(race.start, race.state, race.action)
    /\ race.current_q[race.writes[2]]
          = QAt(race.start, race.state, race.action)
    /\ QAt(qtable, race.state, race.action) = race.new_q[race.writes[2]]

\* C24: get_state gives soil_moisture_level low below 40, medium from 40
\* to below 65 and high from 65, rainfall_level low below 30, medium from 30
\* to below 80 and high from 80, copies crop, growth_stage and disease_risk
\* unchanged, and leaves the store as it was.
C24_StateEncoder ==
    [][gs'.called =>
         LET m == gs'.data.soil_moisture_pct.v
             r == gs'.data.rainfall_mm.v
         IN  /\ gs'.state.soil_moisture_level
                   = (IF m >= 65 THEN "high"
                      ELSE IF m >= 40 THEN "medium" ELSE "low")
             /\ gs'.state.rainfall_level
                   = (IF r >= 80 THEN "high"
                      ELSE IF r >= 30 THEN "medium" ELSE "low")
             /\ gs'.state.crop = gs'.data.crop
             /\ gs'.state.growth_stage = gs'.data.growth_stage
             /\ gs'.state.disease_risk = gs'.data.disease_risk
             /\ DOMAIN gs'.state
                   = {"soil_moisture_level", "rainfall_level", "crop",
                      "growth_stage", "disease_risk"}
             /\ gs'.data = gs.data
             /\ qtable' = qtable]_vars

\* C24 witness: a reading on both lower boundaries (moisture 40, rainfall
\* 30) was encoded as medium / medium over a table that holds rows.
C24_Witness ==
    /\ gs.called
    /\ gs.data.soil_moisture_pct.v = 40
    /\ gs.data.rainfall_mm.v = 30
    /\ gs.state.soil_moisture_level = "medium"
    /\ gs.state.rainfall_level = "medium"
    /\ qtable # {}

\* C25: an update for (state, action) leaves every entry stored under a
\* key that differs in any of the six fields as it was, and get(s) for any
\* other key still returns what was stored under exactly that key.
C25_ExactKey ==
    uq.n >= 1 =>
        /\ \A row \in uq.before :
              row \notin RowsAt(uq.before, uq.state, uq.action)
                  => row \in qtable
        /\ \A s \in UpdateStates, a \in ACTION_SPACE :
              (s # uq.state \/ a # uq.action) =>
                  /\ QAt(qtable, s, a) = QAt(uq.before, s, a)
                  /\ fetch_q_values(qtable, s, TRUE).q[a]
                        = QAt(uq.before, s, a)

\* C25 witness: the key updated differs only in growth_stage from a key
\* that held a row; that row is still stored and the updated key holds its
\* own value.
C25_Witness ==
    /\ uq.n = 1
    /\ \E row \in uq.before :
          /\ row \in RowsAt(uq.before,
                             [uq.state EXCEPT !.growth_stage = "cri"],
                             uq.action)
          /\ uq.state.growth_stage = "vegetative"
          /\ row \in qtable
          /\ QAt(qtable, uq.state, uq.action) # row.q_value

\* the keys under which a table holds a row
Keys(table) ==
    {[soil_moisture_level |-> row.soil_moisture_level,
      rainfall_level |-> row.rainfall_level, crop |-> row.crop,
      growth_stage |-> row.growth_stage, disease_risk |-> row.disease_risk,
      action |-> row.action] : row \in table}

\* C26: a /decide leaves every stored entry unchanged and creates none; the
\* store changes only by the RL updater's upsert during /feedback; and no
\* step removes a stored key.
C26_OnlyUpdaterWrites ==
    [][/\ (req'.op = "decide" => qtable' = qtable)
       /\ (qtable' # qtable
            => (/\ req'.op = "feedback"
                /\ \E i \in DOMAIN calls' : calls'[i] = "upsert"))
       /\ Keys(qtable) \subseteq Keys(qtable')]_vars

\* C26 witness: a /decide that selected the RL action from a store holding
\* rows, asked the gate and read the q-values for the response has returned,
\* and the rows are still there.
C26_Witness ==
    /\ DecideServed /\ Decided
    /\ Called("fetch_q_values")
    /\ Called("is_action_allowed")
    /\ Called("get_q_values")
    /\ qtable # {}
    /\ qtable \in InitTables

\* C27: one /decide appends at most one penalty record, and exactly one
\* when it returns after the gate blocked RL action 1, in a critical growth
\* stage or not.
C27_OneRecordPerDecision ==
    [][req'.op = "decide" =>
         /\ Len(penalties') <= Len(penalties) + 1
         /\ (/\ resp'.kind = "decide"
              /\ rl_chosen' = 1
              /\ resp'.reason = FallbackML)
                => Len(penalties') = Len(penalties) + 1]_vars

\* C28: a decision decide() returns past rules 1-3 is the fallback iff the
\* RL action is 1 and disease_risk is high, and every record decide() logs
\* is the disease rule's, with penalty 3.0.
C28_OnlyDiseaseBlocks ==
    /\ (/\ DecideServed /\ Decided
        /\ resp.reason \notin {HeavyRain, MoistureSufficient,
                                PulsesWaterlogging})
          => ((resp.reason = FallbackML)
                <=> (rl_chosen = 1 /\ Reading.disease_risk = "high"))
    /\ \A i \in DOMAIN penalties :
          /\ penalties[i].policy_rule = "DISEASE_IRRIGATION_BLOCK"
          /\ penalties[i].penalty_score = Real(3, 0)

\* C28 witness: wheat at moisture 61 with high disease risk and RL action 1
\* fell back to the predictor, the disease rule's record being logged.
C28_Witness ==
    /\ DecideServed /\ Decided
    /\ resp.reason = FallbackML
    /\ rl_chosen = 1
    /\ Reading.crop = "wheat"
    /\ Reading.soil_moisture_pct.v = 61
    /\ Reading.disease_risk = "high"
    /\ Len(penalties) >= 1

\* C29: the crop decide() hands to the core is the normalised lowercase
\* name, so a whitelisted crop in any letter case is decided as its
\* lowercase spelling: pulses in any case at moisture 61 is decision 0 for
\* waterlogging.
C29_CropCaseNormalised ==
    /\ (DecideServed /\ CropAccepted /\ core_data # NoCoreData)
          => core_data.crop = Lower(req.body.data.crop)
    /\ (/\ DecideServed /\ Decided
        /\ Lower(Reading.crop) = "pulses"
        /\ Reading.soil_moisture_pct.v > 60
        /\ Reading.soil_moisture_pct.v < 65
        /\ Reading.rainfall_mm.v < 80)
          => (resp.final_decision = 0 /\ resp.reason = PulsesWaterlogging)

\* C30: after any sequence of updates every stored row has visit_count = 1,
\* however many updates were applied to its key.
C30_VisitCountIsOne ==
    \A row \in qtable : row.visit_count = 1

\* C30 witness: a key that was already stored has been updated twice more
\* and its row is in the table.
C30_Witness ==
    /\ uq.n = 2
    /\ RowsAt(uq.before, uq.state, uq.action) # {}
    /\ RowsAt(qtable, uq.state, uq.action) # {}

====
